---- MODULE Spec2Model ----
(***************************************************************************)
(* Action registration and dispatch pipeline of pip-services3-aws-nodex:   *)
(* LambdaService (registry, interceptor chain, act), LambdaFunction        *)
(* (container action map, execute) and CommandableLambdaService (actions   *)
(* generated from a command set, with instrumentation).                    *)
(*                                                                         *)
(* A callable built by the code out of closures is modelled as the         *)
(* sequence of its layers, outermost first; Run evaluates it the way the   *)
(* closures call each other and yields the trace of what was invoked and   *)
(* the outcome the caller sees.                                            *)
(***************************************************************************)
EXTENDS Integers, Sequences, FiniteSets, TLC

\* ---- bounds ------------------------------------------------------------
MaxActions == 2
MaxInterceptors == 2
MaxX == 1
MaxDepth == 8
MaxCommands == 3
MaxOpens == 2
MaxEvents == 2
MaxCounters == 41
MaxFailAt == 3

\* ---- values ------------------------------------------------------------
\* JavaScript null / undefined (both satisfy `== null`)
NULL == "<null>"

\* the service names a LambdaService is constructed with
ServiceNames == {NULL, "svc"}
\* the action names passed to registerAction
Names == {"a", "b"}
\* parameter schemas: "none" is a null schema, the others reject some params
Schemas == {"none", "even"}
\* action functions: h1 returns a value, h2 returns undefined, h3 throws
Handlers == {"h1", "h2", "h3"}
\* the action functions registered in a LambdaService
ServiceHandlers == {"h1", "h3"}
\* the commands of the controller's command set, in order; the name tells how
\* command.execute(correlationId, args) ends: it throws synchronously, or it
\* returns a promise that is later resolved or rejected
CommandSet == <<"throw", "resolve", "reject">>
\* interceptors: inc and dbl change the params and call next, drop calls next
\* without params, ret returns and throw throws without calling next
InterceptorKinds == {"inc", "dbl", "drop", "ret", "throw"}
\* authorize functions: pass calls next, deny throws without calling next
AuthKinds == {"pass", "deny"}
\* the payload of an envelope
Xs == 0..MaxX
\* params that are null or undefined (falsy in `schema && params`)
Absent == -1

\* LambdaService: _name, _actions, _interceptors, _opened;
\* LambdaFunction: _actions; last: the most recent call and what it did;
\* svc_before[i]: how many interceptors were registered before action i was;
\* svc_closed: the service has been closed and not opened again since
VARIABLES svc_name, svc_actions, svc_interceptors, svc_opened, fn_actions, last,
          svc_before, svc_closed

\* commands: the command set of the controller of a commandable service;
\* handled: the last call of a generated action and what it passed to execute;
\* LambdaClient: _opened, _connection, _lambda (whether the transport handle
\* exists), the number of open calls that wait for the connection resolver;
\* cl_cycle: the connection resolved by the open that opened the client;
\* cl_last: the most recent call of the client
VARIABLES commands, handled, cl_opened, cl_connection, cl_lambda, cl_resolving,
          cl_cycle, cl_last

client_vars == <<cl_opened, cl_connection, cl_lambda, cl_resolving, cl_cycle,
                 cl_last>>

\* the container (LambdaFunction): fn_opened is what isOpen() answers,
\* fn_events the invocation events that reached handler and how far each has
\* come, fn_inits how often run, open and registerServices have taken effect
\* and how often the container was closed;
\* CloudWatchCounters: _opened, _client (whether it exists), the number of
\* open calls that wait for the connection resolver; cw_last: the most
\* recent call of the component
VARIABLES fn_opened, fn_events, fn_inits, cw_opened, cw_client, cw_resolving,
          cw_last

container_vars == <<fn_opened, fn_events, fn_inits>>

counters_vars == <<cw_opened, cw_client, cw_resolving, cw_last>>

aux_vars == <<container_vars, counters_vars>>

\* what the registrations and the dispatches never touch
other_vars == <<commands, handled, client_vars, svc_closed, aux_vars>>

vars == <<svc_name, svc_actions, svc_interceptors, svc_opened, fn_actions, last,
          svc_before, other_vars>>

\* ---- outcomes and trace events -------------------------------------------
\* what the caller of a callable sees: type is "ok" (a returned value), "err"
\* (a thrown error or a rejection), "pending" (a promise not settled yet) or
\* "diverged" (the call never returns); by/n name the function that produced
\* it and x the params that function received
Out(type, code, by, n, x, command) ==
    [type |-> type, code |-> code, by |-> by, n |-> n, x |-> x, command |-> command]

Ev(ev, k, n, x) == [ev |-> ev, k |-> k, n |-> n, x |-> x]

Layer(l, k, n) == [l |-> l, k |-> k, n |-> n]

\* name and arg: the name and the action function a registration was called
\* with
Idle == [op |-> "none", cmd |-> NULL, x |-> 0, trace |-> <<>>,
         out |-> Out("none", "", "", 0, 0, NULL), present |-> FALSE, kept |-> TRUE,
         name |-> NULL, arg |-> NULL]

\* ---- collaborators (user code and pip-services3-commons) -----------------
\* schema.validateAndReturnException(correlationId, params, false): TRUE when
\* it returns no error
SchemaAccepts(schema, x) ==
    CASE schema = "none" -> TRUE
      [] schema = "even" -> x # Absent /\ x % 2 = 0

\* what an interceptor does to the params before it calls next
Transform(k, x) ==
    IF k = "drop" \/ x = Absent
    THEN Absent
    ELSE CASE k = "inc" -> (x + 1) % (MaxX + 1)
           [] k = "dbl" -> (2 * x) % (MaxX + 1)
           [] OTHER -> x

\* the result of the action function h called with params x; action.call of
\* something that is no function throws a TypeError
HandlerOut(h, x) ==
    CASE h = "h1" -> Out("ok", "RESULT", h, 0, x, NULL)
      [] h = "h2" -> Out("ok", "UNDEFINED", h, 0, x, NULL)
      [] h = "h3" -> Out("err", "HANDLER_ERROR", h, 0, x, NULL)
      [] OTHER -> Out("err", "TypeError", "action.call", 0, x, NULL)

\* ---- evaluation of a composed callable -----------------------------------
Res(trace, out) == [trace |-> trace, out |-> out]

\* the callable that authorize receives as next: the closure reads the
\* variable actionWrapper when it is called, and by then the variable holds
\* the outermost wrapper of the action
AuthNext(i) == 1

\* the handler CommandableLambdaService.register generates for a command
CommandHandler(name, x) ==
    LET xb == name
        begin == <<Ev("instrument", name, 0, x), Ev("execute", name, 0, x)>> IN
    IF xb = "throw"
    THEN \* catch: endFailure(ex), finally: endTiming(), then falls off the end
         Res(begin \o <<Ev("endFailure", name, 0, x), Ev("endTiming", name, 0, x)>>,
             Out("ok", "UNDEFINED", name, 0, x, NULL))
    ELSE \* return of the promise, finally: endTiming()
         Res(begin \o <<Ev("endTiming", name, 0, x)>>,
             Out("pending", xb, name, 0, x, NULL))

\* as AdapterHandler, but the timing is ended before execute is awaited
AdapterHandler_Unawaited(name, x) ==
    LET begin == <<Ev("instrument", name, 0, x), Ev("execute", name, 0, x)>> IN
    IF name = "throw"
    THEN Res(begin \o <<Ev("endTiming(err)", name, 0, x)>>,
             Out("err", "COMMAND_ERROR", name, 0, x, NULL))
    ELSE Res(begin \o <<Ev("endTiming", name, 0, x)>>,
             Out("awaiting", name, name, 0, x, NULL))

\* the handler CommandableLambdaFunction.registerCommandSet generates for a
\* command, up to its `yield command.execute(correlationId, args)`: a throw
\* of execute lands in the catch (endTiming(err), throw err), otherwise the
\* handler waits for the promise
AdapterHandler(name, x) ==
    LET begin == <<Ev("instrument", name, 0, x), Ev("execute", name, 0, x)>> IN
    IF name = "throw"
    THEN Res(begin \o <<Ev("endTiming(err)", name, 0, x)>>,
             Out("err", "COMMAND_ERROR", name, 0, x, NULL))
    ELSE Res(begin, Out("awaiting", name, name, 0, x, NULL))

\* as interceptorWrapper, but the wrapper calls the action itself whatever the
\* interceptor did
interceptorWrapper_AlwaysNext(L, x, next) ==
    Res(<<Ev("interceptor", L.k, L.n, x)>> \o next.trace, next.out)

\* the wrapper applyInterceptors builds around an action:
\* (params) => interceptor(params, action); next is what action(params') does
interceptorWrapper(L, x, next) ==
    LET ev == Ev("interceptor", L.k, L.n, x) IN
    IF L.k = "ret"
    THEN Res(<<ev>>, Out("ok", "INTERCEPTED", "interceptor", L.n, x, NULL))
    ELSE IF L.k = "throw"
    THEN Res(<<ev>>, Out("err", "INTERCEPTOR_ERROR", "interceptor", L.n, x, NULL))
    ELSE Res(<<ev>> \o next.trace, next.out)

\* schema.validateAndReturnException(...) followed by `throw err` or by the
\* call of the action; next is what action(params) does
validation(schema, x, next) ==
    LET ev == Ev("validate", schema, 0, x) IN
    IF SchemaAccepts(schema, x)
    THEN Res(<<ev>> \o next.trace, next.out)
    ELSE Res(<<ev>>, Out("err", "INVALID_DATA", "validate", 0, x, NULL))

RECURSIVE Run(_, _, _, _)
Run(w, i, x, fuel) ==
    IF fuel = 0
    THEN Res(<<>>, Out("diverged", "NO_RESULT", "", 0, x, NULL))
    ELSE
      LET L == w[i] IN
      CASE L.l = "interceptor" ->
             interceptorWrapper(L, x, Run(w, i + 1, Transform(L.k, x), fuel - 1))
        [] L.l = "authorize" ->
             LET ev == Ev("authorize", L.k, 0, x) IN
             IF L.k = "deny"
             THEN Res(<<ev>>, Out("err", "UNAUTHORIZED", "authorize", 0, x, NULL))
             ELSE LET r == Run(w, AuthNext(i), x, fuel - 1) IN
                  Res(<<ev>> \o r.trace, r.out)
        [] L.l = "validate" ->
             \* the wrapper of applyValidation: if (schema && params)
             IF L.k = "none" \/ x = Absent
             THEN Run(w, i + 1, x, fuel - 1)
             ELSE validation(L.k, x, Run(w, i + 1, x, fuel - 1))
        [] L.l = "curl" ->
             \* actionCurl of the container: if (schema != null), and then
             \* params.correlaton_id is read
             IF L.k = "none"
             THEN Run(w, i + 1, x, fuel - 1)
             ELSE IF x = Absent
             THEN Res(<<>>, Out("err", "TypeError", "actionCurl", 0, x, NULL))
             ELSE validation(L.k, x, Run(w, i + 1, x, fuel - 1))
        [] L.l = "handler" ->
             Res(<<Ev("handler", L.k, 0, x)>>, HandlerOut(L.k, x))
        [] L.l = "command" ->
             CommandHandler(L.k, x)
        [] L.l = "fncommand" ->
             AdapterHandler(L.k, x)

\* ---- LambdaService ---------------------------------------------------------
\* as applyValidation, but the wrapper does not look at the schema
applyValidation_NoSchema(schema, action) ==
    <<Layer("validate", "none", 0), action>>

\* applyValidation wraps the action function into the validation wrapper
applyValidation(schema, action) ==
    <<Layer("validate", schema, 0), action>>

\* an action function of the user, and the one generated for a command
Handler(h) == Layer("handler", h, 0)
CommandAction(name) == Layer("command", name, 0)

\* applyInterceptors: the loop runs from the last interceptor down to the
\* first, each turn wrapping what the turns before it built
RECURSIVE applyInterceptorsFrom(_, _, _)
applyInterceptorsFrom(index, interceptors, actionWrapper) ==
    IF index < 1
    THEN actionWrapper
    ELSE applyInterceptorsFrom(index - 1, interceptors,
             <<Layer("interceptor", interceptors[index], index)>> \o actionWrapper)

\* as applyInterceptors, but the loop runs from the first interceptor up
RECURSIVE applyInterceptorsUp(_, _, _)
applyInterceptorsUp(index, interceptors, actionWrapper) ==
    IF index > Len(interceptors)
    THEN actionWrapper
    ELSE applyInterceptorsUp(index + 1, interceptors,
             <<Layer("interceptor", interceptors[index], index)>> \o actionWrapper)

applyInterceptors_Forward(interceptors, action) ==
    applyInterceptorsUp(1, interceptors, action)

applyInterceptors(interceptors, action) ==
    applyInterceptorsFrom(Len(interceptors), interceptors, action)

\* as generateActionCmd, but the service name is left out
generateActionCmd_NoPrefix(name, svcname) == name

generateActionCmd(name, svcname) ==
    IF svcname # NULL THEN svcname \o "." \o name ELSE name

LambdaAction(cmd, schema, action) == [cmd |-> cmd, schema |-> schema, action |-> action]

\* this._actions after registerAction(name, schema, action)
registerAction(actions, interceptors, svcname, name, schema, action) ==
    Append(actions,
           LambdaAction(generateActionCmd(name, svcname), schema,
                        applyInterceptors(interceptors, applyValidation(schema, action))))

\* this._actions after registerActionWithAuth(name, schema, authorize, action)
registerActionWithAuth(actions, interceptors, svcname, name, schema, authorize, action) ==
    Append(actions,
           LambdaAction(generateActionCmd(name, svcname), schema,
                        applyInterceptors(interceptors,
                            <<Layer("authorize", authorize, 0)>>
                                \o applyValidation(schema, action))))

\* as FindAction, but the last match is taken
FindAction_Last(actions, cmd) ==
    IF \E i \in 1..Len(actions) : actions[i].cmd = cmd
    THEN CHOOSE i \in 1..Len(actions) :
             /\ actions[i].cmd = cmd
             /\ \A j \in (i + 1)..Len(actions) : actions[j].cmd # cmd
    ELSE 0

\* this._actions.find(a => a.cmd == cmd): the index of the first match, 0 if none
FindAction(actions, cmd) ==
    IF \E i \in 1..Len(actions) : actions[i].cmd = cmd
    THEN CHOOSE i \in 1..Len(actions) :
             /\ actions[i].cmd = cmd
             /\ \A j \in 1..(i - 1) : actions[j].cmd # cmd
    ELSE 0

\* as IsMissing, but a null cmd is not taken for a missing one
IsMissing_Never(cmd) == FALSE

\* the cmd == null test of act and execute
IsMissing(cmd) == cmd = NULL

\* as NoActionError, but without the details
NoActionError_NoDetails(by, cmd, x) == Out("err", "NO_ACTION", by, 0, x, NULL)

\* BadRequestException(correlationId, 'NO_ACTION', ...).withDetails('command', cmd)
NoActionError(by, cmd, x) == Out("err", "NO_ACTION", by, 0, x, cmd)

\* act(params): what the call invokes and what its caller sees
act(actions, cmd, x) ==
    IF IsMissing(cmd)
    THEN Res(<<>>, Out("err", "NO_COMMAND", "act", 0, x, NULL))
    ELSE LET i == FindAction(actions, cmd) IN
         IF i = 0
         THEN Res(<<>>, NoActionError("act", cmd, x))
         ELSE Run(actions[i].action, 1, x, MaxDepth)

HasCmd(actions, cmd) == \E i \in 1..Len(actions) : actions[i].cmd = cmd

\* the commands an envelope may carry
ServiceCmds == {NULL} \cup Names \cup {generateActionCmd(n, "svc") : n \in Names}

Registered(op, cmd, present) ==
    [Idle EXCEPT !.op = op, !.cmd = cmd, !.present = present,
                 !.out = Out("ok", "REGISTERED", op, 0, 0, NULL)]

Called(op, cmd, x, r) ==
    [Idle EXCEPT !.op = op, !.cmd = cmd, !.x = x,
                 !.trace = r.trace, !.out = r.out]

\* registerAction(name, schema, action) with arguments out of the given sets
RegisterActionWith(names, schemas, actions) ==
    /\ Len(svc_actions) < MaxActions
    /\ \E name \in names, schema \in schemas, action \in actions :
         /\ svc_actions' = registerAction(svc_actions, svc_interceptors, svc_name,
                                          name, schema, Handler(action))
         /\ last' = [Registered("registerAction", generateActionCmd(name, svc_name),
                                HasCmd(svc_actions, generateActionCmd(name, svc_name)))
                        EXCEPT !.name = name, !.arg = action]
    /\ svc_before' = Append(svc_before, Len(svc_interceptors))
    /\ UNCHANGED <<svc_name, other_vars, svc_interceptors, svc_opened, fn_actions>>

RegisterAction == RegisterActionWith(Names, Schemas, ServiceHandlers)

\* the arguments of a registerAction call that may be invalid
AnyNames == {"", "a"}
AnyActions == {"h1", "h3", NULL, "not a function"}

RegisterAnyAction == RegisterActionWith(AnyNames, {"none"}, AnyActions)

RegisterActionWithAuth ==
    /\ Len(svc_actions) < MaxActions
    /\ \E name \in Names, schema \in Schemas, authorize \in AuthKinds, action \in ServiceHandlers :
         /\ svc_actions' = registerActionWithAuth(svc_actions, svc_interceptors, svc_name,
                                                  name, schema, authorize, Handler(action))
         /\ last' = Registered("registerActionWithAuth", generateActionCmd(name, svc_name),
                               HasCmd(svc_actions, generateActionCmd(name, svc_name)))
    /\ svc_before' = Append(svc_before, Len(svc_interceptors))
    /\ UNCHANGED <<svc_name, other_vars, svc_interceptors, svc_opened, fn_actions>>

\* as RegisterInterceptorWith, but the new interceptor is also wrapped around
\* the actions registered so far
RegisterInterceptorWith_Rewrap(kinds) ==
    /\ last.out.type # "pending"
    /\ Len(svc_interceptors) < MaxInterceptors
    /\ \E k \in kinds :
         /\ svc_interceptors' = Append(svc_interceptors, k)
         /\ svc_actions' =
               [i \in 1..Len(svc_actions) |->
                  [svc_actions[i] EXCEPT
                     !.action = <<Layer("interceptor", k, Len(svc_interceptors) + 1)>> \o @]]
    /\ last' = [Idle EXCEPT !.op = "registerInterceptor"]
    /\ UNCHANGED <<svc_name, other_vars, svc_opened, fn_actions, svc_before>>

\* registerInterceptor(action) with an interceptor out of the given set
RegisterInterceptorWith(kinds) ==
    /\ last.out.type # "pending"
    /\ Len(svc_interceptors) < MaxInterceptors
    /\ \E k \in kinds :
         svc_interceptors' = Append(svc_interceptors, k)
    /\ last' = [Idle EXCEPT !.op = "registerInterceptor"]
    /\ UNCHANGED <<svc_name, other_vars, svc_actions, svc_opened, fn_actions, svc_before>>

RegisterInterceptor == RegisterInterceptorWith(InterceptorKinds)

RegisterPlainInterceptor == RegisterInterceptorWith({"inc"})

\* as Act, but the service forgets its actions after the dispatch
Act_Forgetting ==
    /\ last.out.type # "pending"
    /\ \E cmd \in ServiceCmds, x \in Xs :
         last' = Called("act", cmd, x, act(svc_actions, cmd, x))
    /\ svc_actions' = <<>>
    /\ UNCHANGED <<svc_name, other_vars, svc_interceptors, svc_opened, fn_actions,
                   svc_before>>

Act ==
    /\ last.out.type # "pending"
    /\ \E cmd \in ServiceCmds, x \in Xs :
         last' = Called("act", cmd, x, act(svc_actions, cmd, x))
    /\ UNCHANGED <<svc_name, other_vars, svc_actions, svc_interceptors, svc_opened, fn_actions,
                   svc_before>>

\* ---- CommandableLambdaService ---------------------------------------------
\* as registerCommands, but the loop stops before the last command
RECURSIVE registerCommands_SkipLast(_, _, _, _, _)
registerCommands_SkipLast(actions, interceptors, svcname, cmds, index) ==
    IF index >= Len(cmds)
    THEN actions
    ELSE registerCommands_SkipLast(
             registerAction(actions, interceptors, svcname, cmds[index], "none",
                            CommandAction(cmds[index])),
             interceptors, svcname, cmds, index + 1)

\* the loop of register(): one registerAction(name, null, handler) per
\* command, in order
RECURSIVE registerCommands(_, _, _, _, _)
registerCommands(actions, interceptors, svcname, cmds, index) ==
    IF index > Len(cmds)
    THEN actions
    ELSE registerCommands(
             registerAction(actions, interceptors, svcname, cmds[index], "none",
                            CommandAction(cmds[index])),
             interceptors, svcname, cmds, index + 1)

\* register(): this._actions after it, and the command set as it leaves it
\* (the loop only reads commands[index] and command.getName())
register(actions, interceptors, svcname, cmds) ==
    [actions |-> registerCommands(actions, interceptors, svcname, cmds, 1),
     commands |-> cmds]

\* as Open, but without the test of this._opened
Open_Unguarded ==
    /\ last.out.type # "pending"
    /\ LET r == register(svc_actions, svc_interceptors, svc_name, commands) IN
         /\ svc_actions' = r.actions
         /\ commands' = r.commands
         /\ svc_before' = svc_before \o
                             [i \in 1..Len(commands) |-> Len(svc_interceptors)]
         /\ svc_opened' = TRUE
         /\ svc_closed' = FALSE
    /\ last' = [Idle EXCEPT !.op = "open", !.present = svc_opened]
    /\ UNCHANGED <<svc_name, handled, client_vars, aux_vars, svc_interceptors, fn_actions>>

\* open(correlationId) of a CommandableLambdaService; last.present: the
\* service was open already
Open ==
    /\ last.out.type # "pending"
    /\ IF svc_opened
       THEN UNCHANGED <<svc_actions, svc_opened, svc_before, commands, svc_closed>>
       ELSE LET r == register(svc_actions, svc_interceptors, svc_name, commands) IN
            /\ svc_actions' = r.actions
            /\ commands' = r.commands
            /\ svc_before' = svc_before \o
                                [i \in 1..Len(commands) |-> Len(svc_interceptors)]
            /\ svc_opened' = TRUE
            /\ svc_closed' = FALSE
    /\ last' = [Idle EXCEPT !.op = "open", !.present = svc_opened]
    /\ UNCHANGED <<svc_name, handled, client_vars, aux_vars, svc_interceptors, fn_actions>>

\* as Close, but the actions stay registered
Close_KeepActions ==
    /\ last.out.type # "pending"
    /\ IF ~svc_opened
       THEN UNCHANGED <<svc_interceptors, svc_opened, svc_closed>>
       ELSE /\ svc_opened' = FALSE
            /\ svc_interceptors' = <<>>
            /\ svc_closed' = TRUE
    /\ last' = [Idle EXCEPT !.op = "close"]
    /\ UNCHANGED <<svc_name, svc_actions, svc_before, commands, handled,
                   client_vars, aux_vars, fn_actions>>

\* close(correlationId)
Close ==
    /\ last.out.type # "pending"
    /\ IF ~svc_opened
       THEN UNCHANGED <<svc_actions, svc_interceptors, svc_opened, svc_before,
                        svc_closed>>
       ELSE /\ svc_opened' = FALSE
            /\ svc_before' = <<>>
            /\ svc_actions' = <<>>
            /\ svc_interceptors' = <<>>
            /\ svc_closed' = TRUE
    /\ last' = [Idle EXCEPT !.op = "close"]
    /\ UNCHANGED <<svc_name, commands, handled, client_vars, aux_vars, fn_actions>>

\* the commands of the envelopes sent to a commandable service
CommandCmds ==
    {NULL} \cup {generateActionCmd(CommandSet[i], n) :
                    i \in 1..Len(CommandSet), n \in ServiceNames}

\* act(params) on a commandable service
ActCommand ==
    /\ last.out.type # "pending"
    /\ \E cmd \in CommandCmds, x \in Xs :
         last' = Called("act", cmd, x, act(svc_actions, cmd, x))
    /\ UNCHANGED <<svc_name, other_vars, svc_actions, svc_interceptors, svc_opened, fn_actions,
                   svc_before>>

\* the promise that command.execute returned is resolved or rejected, and
\* with it the promise that act returned
Settle ==
    /\ last.out.type = "pending"
    /\ last' = [last EXCEPT
                  !.trace = Append(@, Ev("settled", last.out.code, 0, last.out.x)),
                  !.out = IF last.out.code = "resolve"
                          THEN Out("ok", "RESULT", last.out.by, 0, last.out.x, NULL)
                          ELSE Out("err", "COMMAND_ERROR", last.out.by, 0, last.out.x, NULL)]
    /\ UNCHANGED <<svc_name, other_vars, svc_actions, svc_interceptors, svc_opened, fn_actions,
                   svc_before>>

\* ---- the parameters of a generated action ----------------------------------
\* a JavaScript object: its own fields, or null / undefined
Object(fields) == [present |-> TRUE, fields |-> fields]
NoObject == [present |-> FALSE, fields |-> <<>>]

\* the fields of an envelope and the values they hold
EnvelopeKeys == {"cmd", "correlation_id", "id"}
Values == {NULL, "v1", "v2"}
Envelopes ==
    {NoObject} \cup {Object(f) : f \in UNION {[K -> Values] : K \in SUBSET EnvelopeKeys}}

\* object.key: undefined when the object has no such field
Get(object, key) ==
    IF key \in DOMAIN object.fields THEN object.fields[key] ELSE NULL

\* Parameters.fromValue(value): a new map with the fields of value, empty
\* when value is null
fromValue(value) ==
    IF value.present THEN value.fields ELSE <<>>

\* as remove, but the map keeps the key
remove_Nothing(map, key) == map

\* args.remove(key)
remove(map, key) == [k \in DOMAIN map \ {key} |-> map[k]]

\* the generated action up to its call of execute: the correlationId and
\* the args that instrument and command.execute receive
commandArguments(params) ==
    [correlationId |-> IF params.present THEN Get(params, "correlation_id") ELSE NULL,
     args |-> remove(fromValue(params), "correlation_id")]

\* a generated action is called with params
HandleParams ==
    /\ \E i \in 1..Len(commands), params \in Envelopes :
         LET a == commandArguments(params) IN
         handled' = [op |-> "action", name |-> commands[i], params |-> params,
                     correlationId |-> a.correlationId, args |-> a.args]
    /\ UNCHANGED <<svc_name, svc_actions, svc_interceptors, svc_opened, fn_actions,
                   last, svc_before, svc_closed, commands, client_vars, aux_vars>>

\* ---- LambdaFunction -----------------------------------------------------------
\* the members every object inherits from Object.prototype
ObjectPrototype == {"constructor", "toString", "hasOwnProperty"}

\* the arguments of registerAction(cmd, schema, action)
FunctionCmds == {"", "a", "b", "hasOwnProperty"}
FunctionActions == Handlers \cup {NULL, "not a function"}

\* actionCurl: validation, then action.call(this, params)
actionCurl(schema, action) == <<Layer("curl", schema, 0), action>>

Put(map, key, value) ==
    [k \in DOMAIN map \cup {key} |-> IF k = key THEN value ELSE map[k]]

\* this._actions.hasOwnProperty(cmd). The method is looked up in the map
\* first: when a "hasOwnProperty" action is registered it is that action
\* which is called, with the string cmd as its params (strOk: its schema
\* accepts a string); x = 0 stands for the string
hasOwnProperty(actions, cmd, strOk) ==
    IF "hasOwnProperty" \notin DOMAIN actions
    THEN Res(<<>>, Out("ok", IF cmd \in DOMAIN actions THEN "TRUE" ELSE "FALSE",
                       "Object.prototype", 0, 0, NULL))
    ELSE LET curl == actions["hasOwnProperty"] IN
         IF curl[1].k # "none" /\ ~strOk
         THEN Res(<<Ev("validate", curl[1].k, 0, 0)>>,
                  Out("err", "INVALID_DATA", "validate", 0, 0, NULL))
         ELSE Run(curl, 2, 0, MaxDepth)

\* a JavaScript value is truthy
Truthy(out) == out.code \notin {"FALSE", "UNDEFINED"}

\* as fnRegisterAction, but without the tests of cmd and action
fnRegisterAction_Unchecked(actions, cmd, schema, action, strOk) ==
    [map |-> Put(actions, cmd, actionCurl(schema, Handler(action))),
     r |-> Res(<<>>, Out("ok", "REGISTERED", "registerAction", 0, 0, NULL))]

\* registerAction(cmd, schema, action) of the container: the map it leaves
\* and what the call did
fnRegisterAction(actions, cmd, schema, action, strOk) ==
    IF cmd = ""
    THEN [map |-> actions, r |-> Res(<<>>, Out("err", "NO_COMMAND", "registerAction", 0, 0, NULL))]
    ELSE IF action = NULL
    THEN [map |-> actions, r |-> Res(<<>>, Out("err", "NO_ACTION", "registerAction", 0, 0, NULL))]
    ELSE IF action \notin Handlers
    THEN [map |-> actions, r |-> Res(<<>>, Out("err", "ACTION_NOT_FUNCTION", "registerAction", 0, 0, NULL))]
    ELSE LET has == hasOwnProperty(actions, cmd, strOk) IN
         IF has.out.type = "err"
         THEN [map |-> actions, r |-> has]
         ELSE IF Truthy(has.out)
         THEN [map |-> actions,
               r |-> Res(has.trace, Out("err", "DUPLICATED_ACTION", "registerAction", 0, 0, NULL))]
         ELSE [map |-> Put(actions, cmd, actionCurl(schema, Handler(action))),
               r |-> Res(has.trace, Out("ok", "REGISTERED", "registerAction", 0, 0, NULL))]

\* action(event) when this._actions[cmd] is a member of Object.prototype
BuiltinCall(cmd, x) ==
    CASE cmd = "constructor" -> Out("ok", "EVENT", "Object", 0, x, NULL)
      [] cmd = "toString" -> Out("ok", "[object Undefined]", "Object.prototype.toString", 0, x, NULL)
      [] cmd = "hasOwnProperty" -> Out("err", "TypeError", "Object.prototype.hasOwnProperty", 0, x, NULL)

\* execute(event): what the call invokes and what its caller sees
execute(actions, cmd, x) ==
    IF IsMissing(cmd)
    THEN Res(<<>>, Out("err", "NO_COMMAND", "execute", 0, x, NULL))
    ELSE IF cmd \in DOMAIN actions
    THEN Run(actions[cmd], 1, x, MaxDepth)
    ELSE IF cmd \in ObjectPrototype
    THEN Res(<<>>, BuiltinCall(cmd, x))
    ELSE Res(<<>>, NoActionError("execute", cmd, x))

\* the commands of the events sent to the container
EventCmds == {NULL, "a", "b", "c"} \cup ObjectPrototype

FnRegisterAction ==
    \E cmd \in FunctionCmds, schema \in Schemas, action \in FunctionActions,
       strOk \in BOOLEAN :
       LET reg == fnRegisterAction(fn_actions, cmd, schema, action, strOk) IN
         /\ fn_actions' = reg.map
         /\ last' = [Idle EXCEPT !.op = "fn.registerAction", !.cmd = cmd,
                                 !.arg = action,
                                 !.trace = reg.r.trace, !.out = reg.r.out,
                                 !.present = cmd \in DOMAIN fn_actions,
                                 !.kept = (reg.map = fn_actions)]
         /\ UNCHANGED <<svc_name, other_vars, svc_actions, svc_interceptors,
                        svc_opened, svc_before>>

Execute ==
    /\ \E cmd \in EventCmds, x \in Xs :
         last' = Called("execute", cmd, x, execute(fn_actions, cmd, x))
    /\ UNCHANGED <<svc_name, other_vars, svc_actions, svc_interceptors, svc_opened, fn_actions,
                   svc_before>>

\* ---- LambdaClient --------------------------------------------------------------
\* the addresses (ARN) the connection resolver comes up with
Arns == {"arn1", "arn2"}
\* the arguments of call and callOneWay
Methods == {"call", "callOneWay"}
ClientCmds == {NULL, "", "a"}
CorrelationIds == {NULL, "", "c1"}
ClientArgs == {e \in Envelopes : \A k \in DOMAIN e.fields : e.fields[k] = "v1"}

\* what this._lambda.invokeAsync(params) does: its promise is rejected, or it
\* is resolved with data whose Payload is a JSON text, a string that is no
\* JSON text, something that is no string, or with data without a Payload;
\* an 'Event' request is answered as soon as it is accepted, without payload
TransportOutcomes(invocationType) ==
    IF invocationType = "Event"
    THEN {"rejected", "accepted"}
    ELSE {"rejected", "text", "garbled", "binary", "accepted"}

\* a value of the response: a string or not, and what it holds
Undefined == [string |-> FALSE, v |-> "<undefined>"]

\* data.Payload
ResponsePayload(outcome) ==
    CASE outcome = "text" -> [string |-> TRUE, v |-> "{\"id\":1}"]
      [] outcome = "garbled" -> [string |-> TRUE, v |-> "{\"id\":"]
      [] outcome = "binary" -> [string |-> FALSE, v |-> "bytes"]
      [] OTHER -> Undefined

\* JSON.parse(text)
JSONparse(text) ==
    CASE text = "{\"id\":1}" -> [ok |-> TRUE, value |-> [string |-> FALSE, v |-> "object id 1"]]
      [] OTHER -> [ok |-> FALSE, value |-> [string |-> FALSE, v |-> "SyntaxError"]]

\* JSON.stringify(object)
stringify(object) == [json |-> object]

\* how a call of the client ends: cause is the code of the error's cause and
\* cause2 the code of the cause of that cause
ClientOut(type, code, cause, cause2, value) ==
    [type |-> type, code |-> code, cause |-> cause, cause2 |-> cause2, value |-> value]
Returned(value) == ClientOut("ok", "", "", "", value)
Thrown(code, cause, cause2) == ClientOut("err", code, cause, cause2, Undefined)

\* the decoding of data.Payload inside the try block
decodeResult(payload) ==
    IF payload.string
    THEN LET r == JSONparse(payload.v) IN
         IF r.ok
         THEN Returned(r.value)
         ELSE Thrown("DESERIALIZATION_FAILED", r.value.v, "")
    ELSE Returned(payload)

\* as callFailed, but the error thrown carries no cause
callFailed_NoCause(err) == Thrown("CALL_FAILED", "", "")

\* the catch block: InvocationException(..., 'CALL_FAILED', ...).withCause(err)
callFailed(err) == Thrown("CALL_FAILED", err.code, err.cause)

\* the try block and its catch: whatever is thrown inside the try block, the
\* rejection of the transport or the error of the decoding, ends in the catch
tryInvoke(outcome) ==
    LET r == IF outcome = "rejected"
             THEN Thrown("TRANSPORT_ERROR", "", "")
             ELSE decodeResult(ResponsePayload(outcome)) IN
    IF r.type = "err" THEN callFailed(r) ELSE r

\* as assign, but the target is the caller's object itself
assign_Alias(heap) ==
    [heap |-> [heap EXCEPT !.args = Object(fromValue(heap.args))], ref |-> "args"]

\* args = Object.assign({}, args): a new object with the fields of args (none
\* when args is null), and the local variable refers to it
assign(heap) ==
    [heap |-> [heap EXCEPT !.copy = Object(fromValue(heap.args))], ref |-> "copy"]

\* object.key = value
SetField(heap, ref, key, value) ==
    [heap EXCEPT ![ref] = Object([k \in DOMAIN @.fields \cup {key} |->
                                     IF k = key THEN value ELSE @.fields[k]])]

\* correlationId || ...: null, undefined and '' are falsy
Supplied(correlationId) == correlationId \notin {NULL, ""}

\* IdGenerator.nextShort()
nextShort == "generated"

\* the envelope invoke builds, and the caller's args object as it leaves it
buildEnvelope(cmd, correlationId, args) ==
    LET a == assign([args |-> args, copy |-> NoObject])
        h1 == SetField(a.heap, a.ref, "cmd", cmd)
        h2 == SetField(h1, a.ref, "correlation_id",
                       IF Supplied(correlationId) THEN correlationId ELSE nextShort)
    IN [args |-> h2.args, envelope |-> h2[a.ref]]

\* invoke(invocationType, cmd, correlationId, args): the caller's args after
\* it, the requests handed to the transport and how the call ends
invoke(connection, invocationType, cmd, correlationId, args, outcome) ==
    IF cmd = NULL
    THEN [args |-> args, sent |-> <<>>, out |-> Thrown("NO_COMMAND", "", "")]
    ELSE LET b == buildEnvelope(cmd, correlationId, args) IN
         IF connection = NULL
         THEN \* this._connection is undefined
              [args |-> b.args, sent |-> <<>>, out |-> Thrown("TypeError", "", "")]
         ELSE [args |-> b.args,
               sent |-> <<[FunctionName |-> connection,
                           InvocationType |-> invocationType,
                           LogType |-> "None",
                           Payload |-> stringify(b.envelope)]>>,
               out |-> tryInvoke(outcome)]

\* as InvocationTypeOf, but with the two types exchanged
InvocationTypeOf_Swapped(method) ==
    IF method = "call" THEN "Event" ELSE "RequestResponse"

\* the invocation type call and callOneWay pass to invoke
InvocationTypeOf(method) ==
    IF method = "call" THEN "RequestResponse" ELSE "Event"

\* ---- AwsConnectionResolver -------------------------------------------------------
\* what the connection resolver and the credential resolver come up with: a
\* value or none
AccessIds == {NULL, "id1"}
AccessKeys == {NULL, "key1"}

\* an AwsConnectionParams object, and this._connection of a client on which
\* no open has found a connection yet
AwsConnectionParams(arn, access_id, access_key) ==
    [present |-> TRUE, arn |-> arn, access_id |-> access_id, access_key |-> access_key]
NoConnection ==
    [present |-> FALSE, arn |-> NULL, access_id |-> NULL, access_key |-> NULL]

\* this._connection.getArn(): undefined when there is no connection object
getArn(connection) == connection.arn

\* connection.validate(correlationId): TRUE when it throws nothing; it throws
\* the configuration error when the address, the access id or the access key
\* is missing
validate(connection) ==
    /\ connection.arn # NULL
    /\ connection.access_id # NULL
    /\ connection.access_key # NULL

\* as resolve, but the connection is returned without validation
resolve_Unchecked(arn, access_id, access_key) ==
    [ok |-> TRUE, connection |-> AwsConnectionParams(arn, access_id, access_key)]

\* resolve(correlationId): the connection parameters and the credential are
\* appended to a new AwsConnectionParams, which is validated and returned
resolve(arn, access_id, access_key) ==
    LET connection == AwsConnectionParams(arn, access_id, access_key) IN
    IF validate(connection)
    THEN [ok |-> TRUE, connection |-> connection]
    ELSE [ok |-> FALSE, connection |-> NoConnection]

\* no method of the client has been called yet
NoCall ==
    [op |-> "none", step |-> "", cmd |-> NULL, correlationId |-> NULL,
     args |-> NoObject, outcome |-> "", argsAfter |-> NoObject, sent |-> <<>>,
     out |-> Returned(Undefined), wasOpen |-> FALSE, arn |-> NULL,
     access_id |-> NULL, access_key |-> NULL]

\* open(correlationId) up to its await: it returns at once on an open client,
\* otherwise it asks the connection resolver and waits
ClientOpen ==
    /\ IF cl_opened
       THEN /\ UNCHANGED cl_resolving
            /\ cl_last' = [NoCall EXCEPT !.op = "open", !.step = "returned",
                                         !.wasOpen = TRUE]
       ELSE /\ cl_resolving < MaxOpens
            /\ cl_resolving' = cl_resolving + 1
            /\ cl_last' = [NoCall EXCEPT !.op = "open", !.step = "resolving"]
    /\ UNCHANGED <<svc_name, svc_actions, svc_interceptors, svc_opened, fn_actions,
                   last, svc_before, svc_closed, aux_vars, commands, handled, cl_opened, cl_connection,
                   cl_lambda, cl_cycle>>

\* the resolver answers an open call that waits for it: with an error, which
\* open passes on, or with the connection, and open goes on to its end
ClientResolved ==
    /\ cl_resolving > 0
    /\ cl_resolving' = cl_resolving - 1
    /\ \E arn \in Arns \cup {NULL}, access_id \in AccessIds, access_key \in AccessKeys :
         LET r == resolve(arn, access_id, access_key) IN
         IF ~r.ok
         THEN /\ UNCHANGED <<cl_opened, cl_connection, cl_lambda, cl_cycle>>
              /\ cl_last' = [NoCall EXCEPT !.op = "open", !.step = "failed",
                                           !.wasOpen = cl_opened, !.arn = arn,
                                           !.access_id = access_id,
                                           !.access_key = access_key,
                                           !.out = Thrown("CONFIG_ERROR", "", "")]
         ELSE /\ cl_connection' = r.connection
              /\ cl_lambda' = TRUE
              /\ cl_opened' = TRUE
              /\ cl_cycle' = IF cl_opened THEN cl_cycle ELSE getArn(r.connection)
              /\ cl_last' = [NoCall EXCEPT !.op = "open", !.step = "opened",
                                           !.wasOpen = cl_opened, !.arn = arn,
                                           !.access_id = access_id,
                                           !.access_key = access_key]
    /\ UNCHANGED <<svc_name, svc_actions, svc_interceptors, svc_opened, fn_actions,
                   last, svc_before, svc_closed, aux_vars, commands, handled>>

\* close(correlationId)
ClientClose ==
    /\ IF ~cl_opened
       THEN UNCHANGED <<cl_opened, cl_cycle>>
       ELSE /\ cl_opened' = FALSE
            /\ cl_cycle' = NULL
    /\ cl_last' = [NoCall EXCEPT !.op = "close", !.wasOpen = cl_opened]
    /\ UNCHANGED <<svc_name, svc_actions, svc_interceptors, svc_opened, fn_actions,
                   last, svc_before, svc_closed, aux_vars, commands, handled, cl_connection, cl_lambda,
                   cl_resolving>>

\* call(cmd, correlationId, params) and callOneWay(cmd, correlationId, params)
\* with arguments out of the given sets
ClientCallWith(cmds, correlationIds, argss) ==
    /\ \E method \in Methods, cmd \in cmds, correlationId \in correlationIds,
          args \in argss :
         \E outcome \in TransportOutcomes(InvocationTypeOf(method)) :
            LET r == invoke(getArn(cl_connection), InvocationTypeOf(method), cmd,
                            correlationId, args, outcome) IN
            cl_last' = [NoCall EXCEPT !.op = method, !.step = "done", !.cmd = cmd,
                                      !.correlationId = correlationId,
                                      !.args = args, !.outcome = outcome,
                                      !.argsAfter = r.args, !.sent = r.sent,
                                      !.out = r.out, !.wasOpen = cl_opened]
    /\ UNCHANGED <<svc_name, svc_actions, svc_interceptors, svc_opened, fn_actions,
                   last, svc_before, svc_closed, aux_vars, commands, handled, cl_opened, cl_connection,
                   cl_lambda, cl_resolving, cl_cycle>>

\* a call with any arguments
ClientCall == ClientCallWith(ClientCmds, CorrelationIds, ClientArgs)

\* a call of command "a" with a correlation id and empty params
ClientCallPlain == ClientCallWith({"a"}, {"c1"}, {Object(<<>>)})

\* ---- CommandableLambdaFunction ----------------------------------------------
\* registerAction(cmd, schema, action) of the container called with a
\* function: the map it leaves and what the call did
fnRegisterFunction(actions, cmd, schema, action) ==
    IF cmd = ""
    THEN [map |-> actions, r |-> Res(<<>>, Out("err", "NO_COMMAND", "registerAction", 0, 0, NULL))]
    ELSE LET has == hasOwnProperty(actions, cmd, FALSE) IN
         IF has.out.type = "err"
         THEN [map |-> actions, r |-> has]
         ELSE IF Truthy(has.out)
         THEN [map |-> actions,
               r |-> Res(has.trace, Out("err", "DUPLICATED_ACTION", "registerAction", 0, 0, NULL))]
         ELSE [map |-> Put(actions, cmd, <<Layer("curl", schema, 0)>> \o action),
               r |-> Res(has.trace, Out("ok", "REGISTERED", "registerAction", 0, 0, NULL))]

\* the loop of registerCommandSet: one registerAction(name, null, handler)
\* per command, in order; a registerAction that throws ends the loop
RECURSIVE registerCommandSet(_, _, _)
registerCommandSet(actions, cmds, index) ==
    IF index > Len(cmds)
    THEN [map |-> actions,
          r |-> Res(<<>>, Out("ok", "REGISTERED", "register", 0, 0, NULL))]
    ELSE LET reg == fnRegisterFunction(actions, cmds[index], "none",
                                       <<Layer("fncommand", cmds[index], 0)>>) IN
         IF reg.r.out.type = "err"
         THEN reg
         ELSE registerCommandSet(reg.map, cmds, index + 1)

\* the promise that command.execute returned to the generated handler is
\* resolved or rejected: the handler goes on behind its yield
adapterSettled(call) ==
    [call EXCEPT
       !.trace = @ \o <<Ev("settled", call.out.code, 0, call.out.x),
                        Ev(IF call.out.code = "resolve"
                           THEN "endTiming" ELSE "endTiming(err)",
                           call.out.by, 0, call.out.x)>>,
       !.out = IF call.out.code = "resolve"
               THEN Out("ok", "RESULT", call.out.by, 0, call.out.x, NULL)
               ELSE Out("err", "COMMAND_ERROR", call.out.by, 0, call.out.x, NULL)]

\* the commands of the events sent to a commandable container
AdapterCmds == {NULL, "c"} \cup {CommandSet[i] : i \in 1..Len(CommandSet)}

\* register() of a CommandableLambdaFunction
FnRegister ==
    /\ last.out.type # "awaiting"
    /\ LET reg == registerCommandSet(fn_actions, commands, 1) IN
         /\ fn_actions' = reg.map
         /\ last' = [Idle EXCEPT !.op = "fn.register", !.out = reg.r.out]
    /\ UNCHANGED <<svc_name, other_vars, svc_actions, svc_interceptors,
                   svc_opened, svc_before>>

\* execute(event) on a commandable container
ExecuteCommand ==
    /\ last.out.type # "awaiting"
    /\ \E cmd \in AdapterCmds, x \in Xs :
         last' = Called("execute", cmd, x, execute(fn_actions, cmd, x))
    /\ UNCHANGED <<svc_name, other_vars, svc_actions, svc_interceptors, svc_opened,
                   fn_actions, svc_before>>

FnSettle ==
    /\ last.out.type = "awaiting"
    /\ last' = adapterSettled(last)
    /\ UNCHANGED <<svc_name, other_vars, svc_actions, svc_interceptors, svc_opened,
                   fn_actions, svc_before>>

\* ---- LambdaFunction: open, close and the entry point -------------------------
\* nothing has initialised the container yet
NoInits == [run |-> 0, open |-> 0, registerServices |-> 0, close |-> 0]

\* the loop of registerServices(): one registerAction(action.cmd,
\* action.schema, action.action) per action of the services, in order; a
\* registerAction that throws ends the loop
RECURSIVE registerServicesFrom(_, _, _)
registerServicesFrom(actions, svcActions, index) ==
    IF index > Len(svcActions)
    THEN [map |-> actions,
          r |-> Res(<<>>, Out("ok", "REGISTERED", "registerServices", 0, 0, NULL))]
    ELSE LET a == svcActions[index]
             reg == fnRegisterFunction(actions, a.cmd, a.schema, a.action) IN
         IF reg.r.out.type = "err"
         THEN reg
         ELSE registerServicesFrom(reg.map, svcActions, index + 1)

\* registerServices() of a container whose this._actions is empty, as the
\* constructor leaves it
registerServices_Fresh(actions, svcActions) ==
    registerServicesFrom([k \in {} |-> <<>>], svcActions, 1)

registerServices(actions, svcActions) ==
    registerServicesFrom(actions, svcActions, 1)

\* the commands of the events that reach the entry point
HandlerCmds == Names \cup {"c"}

\* an invocation event in handler: pc is "opening" while the handler waits
\* in run() for open, "done" when it has returned; during: another event was
\* being handled when this one arrived; r: what execute invoked and what the
\* caller of handler sees
Event(cmd, x, pc, during, r) ==
    [cmd |-> cmd, x |-> x, pc |-> pc, during |-> during, r |-> r]

InFlight == {e \in 1..Len(fn_events) : fn_events[e].pc # "done"}

\* the services register their actions and interceptors before the
\* container is opened for the first time
Untouched == fn_inits = NoInits /\ fn_events = <<>>

RegisterServiceAction ==
    /\ Untouched
    /\ RegisterActionWith(Names, Schemas, {"h1"})

RegisterServiceInterceptor ==
    /\ Untouched
    /\ RegisterPlainInterceptor

\* open(correlationId) of the container, with no other call under way:
\* Container.open, then registerServices(); last.present: the container
\* was open already. The services expose after every open what their
\* register() registers, which is svc_actions
FnOpen ==
    /\ InFlight = {}
    /\ fn_inits.open < MaxOpens
    /\ IF fn_opened
       THEN /\ UNCHANGED <<fn_opened, fn_actions, fn_inits>>
            /\ last' = [Idle EXCEPT !.op = "fn.open", !.present = TRUE,
                                    !.out = Out("ok", "OPENED", "open", 0, 0, NULL)]
       ELSE LET reg == registerServices(fn_actions, svc_actions) IN
            /\ fn_opened' = TRUE
            /\ fn_actions' = reg.map
            /\ fn_inits' = [fn_inits EXCEPT
                              !.open = @ + 1,
                              !.registerServices =
                                 IF reg.r.out.type = "ok" THEN @ + 1 ELSE @]
            /\ last' = [Idle EXCEPT !.op = "fn.open", !.present = FALSE,
                                    !.out = reg.r.out]
    /\ UNCHANGED <<svc_name, svc_actions, svc_interceptors, svc_opened, svc_before,
                   commands, handled, client_vars, svc_closed, fn_events,
                   counters_vars>>

\* close(correlationId) of the container: LambdaFunction does not override
\* it, Container.close closes the components and isOpen() answers false;
\* this._actions of the container is left as it is
FnClose ==
    /\ InFlight = {}
    /\ fn_opened
    /\ fn_inits.close < MaxOpens
    /\ fn_opened' = FALSE
    /\ fn_inits' = [fn_inits EXCEPT !.close = @ + 1]
    /\ last' = [Idle EXCEPT !.op = "fn.close",
                            !.out = Out("ok", "CLOSED", "close", 0, 0, NULL)]
    /\ UNCHANGED <<svc_name, svc_actions, svc_interceptors, svc_opened, svc_before,
                   commands, handled, client_vars, svc_closed, fn_actions,
                   fn_events, counters_vars>>

\* handler(event) up to its first wait: an open container executes the
\* event; otherwise run() calls open, which calls Container.open and waits
\* for it. Whether isOpen() answers true already while Container.open is
\* under way is up to the container library (early)
FnHandler ==
    /\ Len(fn_events) < MaxEvents
    /\ \E cmd \in HandlerCmds, x \in Xs, early \in BOOLEAN :
         IF fn_opened
         THEN /\ fn_events' = Append(fn_events,
                     Event(cmd, x, "done", InFlight # {}, execute(fn_actions, cmd, x)))
              /\ UNCHANGED <<fn_opened, fn_inits>>
         ELSE /\ fn_events' = Append(fn_events,
                     Event(cmd, x, "opening", InFlight # {},
                           Res(<<>>, Out("awaiting", "open", "handler", 0, x, NULL))))
              /\ fn_inits' = [fn_inits EXCEPT !.run = @ + 1]
              /\ fn_opened' = early
    /\ last' = [Idle EXCEPT !.op = "handler"]
    /\ UNCHANGED <<svc_name, svc_actions, svc_interceptors, svc_opened, svc_before,
                   commands, handled, client_vars, svc_closed, fn_actions,
                   counters_vars>>

\* Container.open has returned to the open that an event waits for:
\* registerServices(), then run returns and handler executes the event; a
\* registerAction that throws makes open, run and handler fail with its error
FnHandlerOpened ==
    /\ \E e \in InFlight :
         LET reg == registerServices(fn_actions, svc_actions)
             ev == fn_events[e] IN
         /\ fn_opened' = TRUE
         /\ fn_actions' = reg.map
         /\ fn_inits' = [fn_inits EXCEPT
                           !.open = @ + 1,
                           !.registerServices =
                              IF reg.r.out.type = "ok" THEN @ + 1 ELSE @]
         /\ fn_events' = [fn_events EXCEPT ![e] =
                            Event(ev.cmd, ev.x, "done", ev.during,
                                  IF reg.r.out.type = "ok"
                                  THEN execute(reg.map, ev.cmd, ev.x)
                                  ELSE reg.r)]
    /\ last' = [Idle EXCEPT !.op = "handler"]
    /\ UNCHANGED <<svc_name, svc_actions, svc_interceptors, svc_opened, svc_before,
                   commands, handled, client_vars, svc_closed, counters_vars>>

\* ---- CloudWatchCounters --------------------------------------------------------
\* the number of metrics at which save sends what it has collected
BatchSize == 20

\* counter.type
CounterTypes == <<"Increment", "Interval", "Statistics", "LastValue", "Timestamp">>

\* a counter: names are numbers, so that each counter of an input is another
Counter(name, type) == [name |-> name, type |-> type]

\* the inputs of save: n counters, named upwards or downwards, their types
\* taking turns
Counters(n, up) ==
    [i \in 1..n |->
       Counter(IF up THEN i ELSE n + 1 - i,
               CounterTypes[(i % Len(CounterTypes)) + 1])]

\* the lengths of the inputs: around the multiples of the batch size
SaveSizes == {n \in 0..MaxCounters : n % BatchSize \in {0, 1, BatchSize - 1}}

\* getCounterData(counter, now, dimensions): the metric datum of a counter
getCounterData(counter) ==
    [MetricName |-> counter.name,
     Unit |-> CASE counter.type = "Increment" -> "Count"
                [] counter.type = "Interval" -> "Milliseconds"
                [] OTHER -> "None",
     Value |-> counter.type \in {"Increment", "LastValue", "Timestamp"},
     StatisticValues |-> counter.type \in {"Interval", "Statistics"}]

\* what a save has done: the MetricData of the putMetricData calls it made,
\* in order, and whether the last of them failed
Saved(sent, failed) == [sent |-> sent, failed |-> failed]

\* the loop of save and the if behind it: data is the array being filled,
\* sent the calls made so far; the failAt-th putMetricData call fails (0:
\* none does) and its error ends save
RECURSIVE saveFrom(_, _, _, _, _)
saveFrom(counters, index, data, sent, failAt) ==
    IF index > Len(counters)
    THEN IF Len(data) > 0
         THEN Saved(Append(sent, data), Len(sent) + 1 = failAt)
         ELSE Saved(sent, FALSE)
    ELSE LET d == Append(data, getCounterData(counters[index])) IN
         IF Len(d) >= BatchSize
         THEN IF Len(sent) + 1 = failAt
              THEN Saved(Append(sent, d), TRUE)
              ELSE saveFrom(counters, index + 1, <<>>, Append(sent, d), failAt)
         ELSE saveFrom(counters, index + 1, d, sent, failAt)

\* as save, but everything goes into one putMetricData call
save_OneCall(client, counters, failAt) ==
    IF ~client \/ counters = <<>>
    THEN Saved(<<>>, FALSE)
    ELSE Saved(<<[i \in 1..Len(counters) |-> getCounterData(counters[i])]>>,
               failAt = 1)

\* save(counters): client tells whether this._client exists
save(client, counters, failAt) ==
    IF ~client
    THEN Saved(<<>>, FALSE)
    ELSE saveFrom(counters, 1, <<>>, <<>>, failAt)

\* no call of the component yet; client: this._client existed when the call
\* was made, opened: so did this._opened
NoSave == [op |-> "none", step |-> "", counters |-> <<>>, sent |-> <<>>,
           client |-> FALSE, opened |-> FALSE, failed |-> FALSE]

\* open(correlationId) up to its wait for the connection resolver
CwOpen ==
    /\ IF cw_opened
       THEN /\ UNCHANGED <<cw_opened, cw_resolving>>
            /\ cw_last' = [NoSave EXCEPT !.op = "open", !.step = "returned",
                                         !.client = cw_client, !.opened = TRUE]
       ELSE /\ cw_resolving < MaxOpens
            /\ cw_opened' = TRUE
            /\ cw_resolving' = cw_resolving + 1
            /\ cw_last' = [NoSave EXCEPT !.op = "open", !.step = "resolving",
                                         !.client = cw_client]
    /\ UNCHANGED <<svc_name, svc_actions, svc_interceptors, svc_opened, svc_before,
                   fn_actions, last, commands, handled, client_vars, svc_closed,
                   container_vars, cw_client>>

\* the resolver answers an open call that waits for it: with an error, which
\* open passes on, or with the connection, and open creates the client
CwResolved ==
    /\ cw_resolving > 0
    /\ cw_resolving' = cw_resolving - 1
    /\ \E arn \in Arns \cup {NULL}, access_id \in AccessIds, access_key \in AccessKeys :
         IF ~resolve(arn, access_id, access_key).ok
         THEN /\ UNCHANGED cw_client
              /\ cw_last' = [NoSave EXCEPT !.op = "open", !.step = "failed",
                                           !.client = cw_client,
                                           !.opened = cw_opened]
         ELSE /\ cw_client' = TRUE
              /\ cw_last' = [NoSave EXCEPT !.op = "open", !.step = "opened",
                                           !.client = cw_client,
                                           !.opened = cw_opened]
    /\ UNCHANGED <<svc_name, svc_actions, svc_interceptors, svc_opened, svc_before,
                   fn_actions, last, commands, handled, client_vars, svc_closed,
                   container_vars, cw_opened>>

\* close(correlationId)
CwClose ==
    /\ cw_opened' = FALSE
    /\ cw_client' = FALSE
    /\ cw_last' = [NoSave EXCEPT !.op = "close", !.client = cw_client,
                                 !.opened = cw_opened]
    /\ UNCHANGED <<svc_name, svc_actions, svc_interceptors, svc_opened, svc_before,
                   fn_actions, last, commands, handled, client_vars, svc_closed,
                   container_vars, cw_resolving>>

\* save(counters), called by dump() of CachedCounters
CwSave ==
    /\ \E n \in SaveSizes, up \in BOOLEAN, failAt \in 0..MaxFailAt :
         LET counters == Counters(n, up)
             r == save(cw_client, counters, failAt) IN
         cw_last' = [NoSave EXCEPT !.op = "save", !.step = "done",
                                   !.counters = counters, !.sent = r.sent,
                                   !.client = cw_client, !.opened = cw_opened,
                                   !.failed = r.failed]
    /\ UNCHANGED <<svc_name, svc_actions, svc_interceptors, svc_opened, svc_before,
                   fn_actions, last, commands, handled, client_vars, svc_closed,
                   container_vars, cw_opened, cw_client, cw_resolving>>

\* a container and a component that nobody has used yet
InitAux ==
    /\ fn_opened = FALSE
    /\ fn_events = <<>>
    /\ fn_inits = NoInits
    /\ cw_opened = FALSE
    /\ cw_client = FALSE
    /\ cw_resolving = 0
    /\ cw_last = NoSave

\* no generated action has been called yet
NotHandled == [op |-> "none"]

Init ==
    /\ svc_name \in ServiceNames
    /\ svc_actions = <<>>
    /\ svc_interceptors = <<>>
    /\ svc_opened = FALSE
    /\ svc_before = <<>>
    /\ svc_closed = FALSE
    /\ fn_actions = [k \in {} |-> <<>>]
    /\ last = Idle
    /\ commands = CommandSet
    /\ handled = NotHandled
    /\ cl_opened = FALSE
    /\ cl_connection = NoConnection
    /\ cl_lambda = FALSE
    /\ cl_resolving = 0
    /\ cl_cycle = NULL
    /\ cl_last = NoCall
    /\ InitAux

NextService == RegisterAction \/ RegisterInterceptor \/ Act

SpecService == Init /\ [][NextService]_vars

NextFunction == FnRegisterAction \/ Execute

SpecFunction == Init /\ [][NextFunction]_vars

\* the service and the container are separate objects: a behaviour of Spec
\* exercises one of the two
Next ==
    \/ DOMAIN fn_actions = {} /\ NextService
    \/ svc_actions = <<>> /\ svc_interceptors = <<>> /\ NextFunction

Spec == Init /\ [][Next]_vars

NextCommandable == RegisterInterceptor \/ Open \/ Close \/ ActCommand \/ Settle

SpecCommandable == Init /\ [][NextCommandable]_vars

\* the controller hands over any command set of up to MaxCommands commands
CommandSets ==
    UNION {[1..n -> {CommandSet[i] : i \in 1..Len(CommandSet)}] : n \in 0..MaxCommands}

InitAdapter ==
    /\ svc_name \in ServiceNames
    /\ svc_actions = <<>>
    /\ svc_interceptors = <<>>
    /\ svc_opened = FALSE
    /\ svc_before = <<>>
    /\ svc_closed = FALSE
    /\ fn_actions = [k \in {} |-> <<>>]
    /\ last = Idle
    /\ commands \in CommandSets
    /\ handled = NotHandled
    /\ cl_opened = FALSE
    /\ cl_connection = NoConnection
    /\ cl_lambda = FALSE
    /\ cl_resolving = 0
    /\ cl_cycle = NULL
    /\ cl_last = NoCall
    /\ InitAux

SpecAdapter == InitAdapter /\ [][NextCommandable]_vars

\* the life cycle of a client, with calls in between
NextClient == ClientOpen \/ ClientResolved \/ ClientClose \/ ClientCallPlain

SpecClient == Init /\ [][NextClient]_vars

\* a client as its constructor leaves it, or as an open that has found the
\* connection leaves it
InitInvoke ==
    /\ svc_name = NULL
    /\ svc_actions = <<>>
    /\ svc_interceptors = <<>>
    /\ svc_opened = FALSE
    /\ svc_before = <<>>
    /\ svc_closed = FALSE
    /\ fn_actions = [k \in {} |-> <<>>]
    /\ last = Idle
    /\ commands = CommandSet
    /\ handled = NotHandled
    /\ cl_connection \in
          {NoConnection} \cup {AwsConnectionParams(arn, "id1", "key1") : arn \in Arns}
    /\ cl_opened = cl_connection.present
    /\ cl_lambda = cl_connection.present
    /\ cl_resolving = 0
    /\ cl_cycle = getArn(cl_connection)
    /\ cl_last = NoCall
    /\ InitAux

NextInvoke == ClientCall

\* the calls of a client, with any arguments
SpecInvoke == InitInvoke /\ [][NextInvoke]_vars

NextParams == HandleParams

SpecParams == Init /\ [][NextParams]_vars

\* interceptors that call next
RegisterPassInterceptor == RegisterInterceptorWith({"inc", "dbl"})

NextAuth == RegisterActionWithAuth \/ RegisterPassInterceptor \/ Act

SpecAuth == Init /\ [][NextAuth]_vars

\* a service whose register() registers nothing by itself: the actions and
\* interceptors are registered by calls before, between and after open and
\* close
InitLifecycle ==
    /\ svc_name \in ServiceNames
    /\ svc_actions = <<>>
    /\ svc_interceptors = <<>>
    /\ svc_opened = FALSE
    /\ svc_before = <<>>
    /\ svc_closed = FALSE
    /\ fn_actions = [k \in {} |-> <<>>]
    /\ last = Idle
    /\ commands = <<>>
    /\ handled = NotHandled
    /\ cl_opened = FALSE
    /\ cl_connection = NoConnection
    /\ cl_lambda = FALSE
    /\ cl_resolving = 0
    /\ cl_cycle = NULL
    /\ cl_last = NoCall
    /\ InitAux

NextServiceLifecycle ==
    RegisterAnyAction \/ RegisterPlainInterceptor \/ Open \/ Close \/ Act

\* the service and the container are separate objects: a behaviour of
\* SpecLifecycle exercises one of the two
NextLifecycle ==
    \/ DOMAIN fn_actions = {} /\ NextServiceLifecycle
    \/ /\ svc_actions = <<>> /\ svc_interceptors = <<>> /\ ~svc_opened /\ ~svc_closed
       /\ NextFunction

SpecLifecycle == InitLifecycle /\ [][NextLifecycle]_vars

\* a container with one service that has no name
InitContainer ==
    /\ svc_name = NULL
    /\ svc_actions = <<>>
    /\ svc_interceptors = <<>>
    /\ svc_opened = FALSE
    /\ svc_before = <<>>
    /\ svc_closed = FALSE
    /\ fn_actions = [k \in {} |-> <<>>]
    /\ last = Idle
    /\ commands = <<>>
    /\ handled = NotHandled
    /\ cl_opened = FALSE
    /\ cl_connection = NoConnection
    /\ cl_lambda = FALSE
    /\ cl_resolving = 0
    /\ cl_cycle = NULL
    /\ cl_last = NoCall
    /\ InitAux

NextContainer ==
    \/ RegisterServiceAction
    \/ RegisterServiceInterceptor
    \/ FnOpen
    \/ FnClose
    \/ FnHandler
    \/ FnHandlerOpened

\* a container, its service and the events that reach its entry point
SpecContainer == InitContainer /\ [][NextContainer]_vars

NextCounters == CwOpen \/ CwResolved \/ CwClose \/ CwSave

\* the life cycle of CloudWatchCounters, with saves in between
SpecCounters == Init /\ [][NextCounters]_vars

NextFunctionAdapter == FnRegister \/ ExecuteCommand \/ FnSettle

\* a commandable container whose controller hands over any command set
SpecFunctionAdapter == InitAdapter /\ [][NextFunctionAdapter]_vars

\* ---- properties -----------------------------------------------------------------
IsDispatch == last.op \in {"act", "execute"}

\* the positions of the trace of the last call where something of that kind ran
Events(kind) == {j \in DOMAIN last.trace : last.trace[j].ev = kind}

\* the index of the action that act dispatches last.cmd to, 0 if none
Dispatched ==
    IF \E i \in 1..Len(svc_actions) : svc_actions[i].cmd = last.cmd
    THEN CHOOSE i \in 1..Len(svc_actions) :
             /\ svc_actions[i].cmd = last.cmd
             /\ \A j \in 1..(i - 1) : svc_actions[j].cmd # last.cmd
    ELSE 0

\* the action function an action was registered with
ActionOf(callable) == callable[Len(callable)].k
\* the schema the container registered an action with
SchemaOf(callable) == callable[1].k

\* the dispatch got past the interceptors and the validation
ReachedAction ==
    last.out.by \notin {"interceptor", "validate", "actionCurl", "act", "execute"}

\* the dispatch of callable invoked its action function once, nothing else's,
\* and returned what that function returned
InvokedOnce(callable) ==
    /\ Cardinality(Events("handler")) = 1
    /\ \A j \in Events("handler") :
         /\ last.trace[j].k = ActionOf(callable)
         /\ last.out = HandlerOut(ActionOf(callable), last.trace[j].x)

\* C1: for every registered action, a dispatch of its command whose parameters
\* pass validation invokes that action's handler exactly once, no other
\* handler, and returns the handler's result unchanged
C1_MatchingDispatch ==
    /\ (last.op = "act" /\ ReachedAction) =>
          \A i \in 1..Len(svc_actions) :
             svc_actions[i].cmd = last.cmd => InvokedOnce(svc_actions[i].action)
    /\ (last.op = "execute" /\ ReachedAction /\ last.cmd \in DOMAIN fn_actions) =>
          InvokedOnce(fn_actions[last.cmd])

\* C2: a dispatch (act or execute) of an envelope without cmd fails with the
\* NO_COMMAND error and invokes no handler, validator or interceptor,
\* whatever is registered
C2_MissingCommand ==
    (IsDispatch /\ last.cmd = NULL) =>
        /\ last.out.type = "err"
        /\ last.out.code = "NO_COMMAND"
        /\ last.trace = <<>>

C2_Witness ==
    /\ last.op = "act"
    /\ last.cmd = NULL
    /\ last.out.code = "NO_COMMAND"
    /\ svc_actions # <<>>
    /\ svc_interceptors # <<>>

\* C3: act with a cmd that matches no registered action fails with the
\* NO_ACTION error whose 'command' detail is that cmd, and invokes nothing
C3_ActionNotFound ==
    (last.op = "act" /\ last.cmd # NULL
       /\ \A i \in 1..Len(svc_actions) : svc_actions[i].cmd # last.cmd) =>
        /\ last.out.type = "err"
        /\ last.out.code = "NO_ACTION"
        /\ last.out.command = last.cmd
        /\ last.trace = <<>>

C3_Witness ==
    /\ last.op = "act"
    /\ last.cmd # NULL
    /\ svc_actions # <<>>
    /\ svc_interceptors # <<>>
    /\ \A i \in 1..Len(svc_actions) : svc_actions[i].cmd # last.cmd
    /\ last.out.code = "NO_ACTION"
    /\ last.out.command = last.cmd

\* C4: execute with a cmd that was never registered in the container fails
\* with the NO_ACTION error whose 'command' detail is that cmd and invokes
\* nothing, also when the cmd names a member of Object.prototype
C4_NeverRegistered ==
    (last.op = "execute" /\ last.cmd # NULL /\ last.cmd \notin DOMAIN fn_actions) =>
        /\ last.out.type = "err"
        /\ last.out.code = "NO_ACTION"
        /\ last.out.command = last.cmd
        /\ last.trace = <<>>

\* C5: the container's registerAction, called (with an action function) for a
\* cmd that is already in the action map, fails with DUPLICATED_ACTION and
\* leaves the map unchanged
C5_DuplicateInContainer ==
    (last.op = "fn.registerAction" /\ last.present
       /\ last.out.code \notin {"NO_ACTION", "ACTION_NOT_FUNCTION"}) =>
        /\ last.out.type = "err"
        /\ last.out.code = "DUPLICATED_ACTION"
        /\ last.trace = <<>>
        /\ last.kept

\* C6: the service's registerAction, called with a name whose command is
\* already registered, fails with DUPLICATED_ACTION and adds no second
\* action for that command
C6_DuplicateInService ==
    (last.op \in {"registerAction", "registerActionWithAuth"} /\ last.present) =>
        /\ last.out.code = "DUPLICATED_ACTION"
        /\ Cardinality({i \in 1..Len(svc_actions) : svc_actions[i].cmd = last.cmd}) = 1

\* C7 as stated: when the schema of the dispatched action rejects the
\* parameters of the envelope, the dispatch fails with the validation error
\* and the handler is not invoked
C7_EnvelopeRejected ==
    /\ (last.op = "act" /\ Dispatched # 0) =>
          LET schema == svc_actions[Dispatched].schema IN
          (schema # "none" /\ ~SchemaAccepts(schema, last.x)) =>
              (last.out.code = "INVALID_DATA" /\ Events("handler") = {})
    /\ (last.op = "execute" /\ last.cmd \in DOMAIN fn_actions) =>
          LET schema == SchemaOf(fn_actions[last.cmd]) IN
          (schema # "none" /\ ~SchemaAccepts(schema, last.x)) =>
              (last.out.code = "INVALID_DATA" /\ Events("handler") = {})

\* the handler at position j of the trace is the action function of
\* callable, and it ran after schema, if there is one, had accepted the very
\* params the handler received, unless it received none
ValidatedBefore(schema, callable, j) ==
    /\ last.trace[j].k = ActionOf(callable)
    /\ \/ schema = "none"
       \/ last.trace[j].x = Absent
       \/ \E v \in Events("validate") :
            /\ v < j
            /\ last.trace[v].k = schema
            /\ last.trace[v].x = last.trace[j].x
            /\ SchemaAccepts(schema, last.trace[j].x)

\* C7 (amended): when parameters reach the validation wrapper (the envelope's
\* parameters as the interceptors in front of it pass them on) and the schema
\* rejects them, the dispatch fails with the validation error and the handler
\* is not invoked; a handler is invoked only after the schema of its action
\* has accepted the parameters the handler receives, or without parameters
\* when an interceptor passed none on
C7_ValidationBeforeHandler ==
    IsDispatch =>
        /\ \A v \in Events("validate") :
              ~SchemaAccepts(last.trace[v].k, last.trace[v].x) =>
                  /\ v = Len(last.trace)
                  /\ last.out.type = "err"
                  /\ last.out.code = "INVALID_DATA"
                  /\ Events("handler") = {}
        /\ \A j \in Events("handler") :
              IF last.op = "act"
              THEN \E i \in 1..Len(svc_actions) :
                      /\ svc_actions[i].cmd = last.cmd
                      /\ ValidatedBefore(svc_actions[i].schema, svc_actions[i].action, j)
              ELSE /\ last.cmd \in DOMAIN fn_actions
                   /\ ValidatedBefore(SchemaOf(fn_actions[last.cmd]),
                                      fn_actions[last.cmd], j)

C7_Witness ==
    /\ last.op = "act"
    /\ Events("interceptor") # {}
    /\ Events("validate") # {}
    /\ Events("handler") = {}
    /\ last.out.code = "INVALID_DATA"
    /\ SchemaAccepts("even", last.x)

\* the params after the first n interceptors of ics have passed them on
RECURSIVE Through(_, _, _)
Through(ics, n, x) ==
    IF n = 0 THEN x ELSE Transform(ics[n], Through(ics, n - 1, x))

\* C8: a dispatch enters the interceptors registered before the action in
\* registration order, the first registered first, then the validation, then
\* the handler, each with the params as the interceptors before it left them
C8_RegistrationOrder ==
    (last.op = "act" /\ Dispatched # 0) =>
        LET c == svc_before[Dispatched]
            schema == svc_actions[Dispatched].schema
            t == last.trace
            passes == \A j \in 1..c : svc_interceptors[j] \in {"inc", "dbl"}
            arrives == Through(svc_interceptors, c, last.x)
        IN
        /\ \A j \in DOMAIN t :
              j <= c => t[j] = Ev("interceptor", svc_interceptors[j], j,
                                  Through(svc_interceptors, j - 1, last.x))
        /\ passes =>
              t = [j \in 1..c |-> Ev("interceptor", svc_interceptors[j], j,
                                     Through(svc_interceptors, j - 1, last.x))]
                  \o (IF schema = "none" \/ arrives = Absent THEN <<>>
                      ELSE <<Ev("validate", schema, 0, arrives)>>)
                  \o (IF arrives = Absent \/ SchemaAccepts(schema, arrives)
                      THEN <<Ev("handler", ActionOf(svc_actions[Dispatched].action),
                                0, arrives)>>
                      ELSE <<>>)

C8_Witness ==
    /\ last.op = "act"
    /\ Len(last.trace) = 4
    /\ last.trace[1].ev = "interceptor" /\ last.trace[1].k = "inc"
    /\ last.trace[2].ev = "interceptor" /\ last.trace[2].k = "dbl"
    /\ last.trace[3].ev = "validate"
    /\ last.trace[4].ev = "handler"
    /\ last.trace[4].x # last.x

\* C9: when an interceptor returns or throws without calling next, nothing
\* after it (later interceptors, validation, handler) is invoked and the
\* dispatch yields what that interceptor returned or threw
C9_ShortCircuit ==
    last.op = "act" =>
        \A j \in Events("interceptor") :
            last.trace[j].k \in {"ret", "throw"} =>
                /\ j = Len(last.trace)
                /\ last.out = Out(IF last.trace[j].k = "ret" THEN "ok" ELSE "err",
                                  IF last.trace[j].k = "ret" THEN "INTERCEPTED"
                                                            ELSE "INTERCEPTOR_ERROR",
                                  "interceptor", last.trace[j].n, last.trace[j].x, NULL)

C9_Witness ==
    /\ last.op = "act"
    /\ Dispatched # 0
    /\ svc_before[Dispatched] = 2
    /\ Len(last.trace) = 1
    /\ last.trace[1].k \in {"ret", "throw"}
    /\ svc_actions[Dispatched].schema # "none"

\* C10: a dispatch of a generated action that reaches the command starts
\* exactly one span and, once it is over, has ended it exactly once
C10_OneSpanOneEnd ==
    (last.op = "act" /\ Events("execute") # {} /\ last.out.type # "pending") =>
        /\ Cardinality(Events("instrument")) = 1
        /\ Cardinality(Events("endTiming") \cup Events("endFailure")) = 1

\* the commands of the last dispatch whose execute was called
Executed == {last.trace[j].k : j \in Events("execute")}

\* C11: for a command whose execute completes asynchronously, the generated
\* action ends the span only after execute has completed, never while the
\* command is still running
C11_SpanEndsAfterCompletion ==
    (last.op = "act" /\ Executed \cap {"resolve", "reject"} # {}) =>
        \A e \in Events("endTiming") \cup Events("endFailure") :
            \E c \in Events("settled") : c < e

\* C12: when execute fails, by a synchronous throw or by a rejection, the
\* span is closed in the failure state, never in the success state, and the
\* caller of the dispatch receives the original error
C12_FailureReachesCaller ==
    (last.op = "act" /\ last.out.type # "pending"
       /\ Executed \cap {"throw", "reject"} # {}) =>
        /\ last.out.type = "err"
        /\ last.out.code = "COMMAND_ERROR"
        /\ Cardinality(Events("endFailure")) = 1
        /\ Events("endTiming") = {}

\* C13: register (run by the open that opens the service) registers one
\* action per command of the command set, in the order of the command set,
\* each under the service name, a dot and the command name (the bare command
\* name for a service without a name), and leaves the command set as it was
C13_OneActionPerCommand ==
    [][(~svc_opened /\ svc_opened') =>
          /\ commands' = commands
          /\ Len(svc_actions') = Len(commands)
          /\ \A i \in 1..Len(commands) :
                /\ svc_actions'[i].cmd =
                      (IF svc_name = NULL THEN commands[i]
                       ELSE svc_name \o "." \o commands[i])
                /\ svc_actions'[i].action[Len(svc_actions'[i].action)]
                      = Layer("command", commands[i], 0)]_vars

C13_Witness ==
    /\ svc_opened
    /\ svc_name # NULL
    /\ Len(commands) = MaxCommands
    /\ Len(svc_actions) = Len(commands)
    /\ commands[1] # commands[2]

\* C14: the generated action passes to execute the correlation_id of the
\* params it was called with as correlationId, and as args the other fields
\* of those params, without the correlation_id field
C14_CorrelationIdStripped ==
    handled.op = "action" =>
        /\ handled.correlationId =
              (IF handled.params.present
                    /\ "correlation_id" \in DOMAIN handled.params.fields
               THEN handled.params.fields["correlation_id"]
               ELSE NULL)
        /\ DOMAIN handled.args =
              (IF handled.params.present
               THEN DOMAIN handled.params.fields \ {"correlation_id"}
               ELSE {})
        /\ \A k \in DOMAIN handled.args : handled.args[k] = handled.params.fields[k]

C14_Witness ==
    /\ handled.op = "action"
    /\ handled.params.present
    /\ DOMAIN handled.params.fields = EnvelopeKeys
    /\ handled.correlationId = "v1"
    /\ DOMAIN handled.args = {"cmd", "id"}

\* the last call of the client was call or callOneWay
IsCall == cl_last.op \in Methods

\* C15: when the transport returns a textual payload that cannot be decoded,
\* the caller sees the DESERIALIZATION_FAILED error whose cause is the decode
\* error, not wrapped into another error
C15_DeserializationError ==
    (IsCall /\ cl_last.sent # <<>> /\ cl_last.outcome = "garbled") =>
        /\ cl_last.out.type = "err"
        /\ cl_last.out.code = "DESERIALIZATION_FAILED"
        /\ cl_last.out.cause = "SyntaxError"

\* C16: when the transport call fails, the call fails with the CALL_FAILED
\* error whose cause is the transport error, in both modes; the transport is
\* called once for it, and no call of the client calls it more than once
C16_TransportFailure ==
    IsCall =>
        /\ Len(cl_last.sent) <= 1
        /\ (cl_last.sent # <<>> /\ cl_last.outcome = "rejected") =>
              /\ Len(cl_last.sent) = 1
              /\ cl_last.out = Thrown("CALL_FAILED", "TRANSPORT_ERROR", "")

C16_Witness ==
    /\ cl_last.op = "callOneWay"
    /\ cl_last.outcome = "rejected"
    /\ Len(cl_last.sent) = 1
    /\ cl_last.out.code = "CALL_FAILED"
    /\ cl_last.out.cause = "TRANSPORT_ERROR"

\* what a call that the transport answered with outcome has to return
Decoded(outcome) ==
    IF outcome = "text"
    THEN [string |-> FALSE, v |-> "object id 1"]
    ELSE ResponsePayload(outcome)

\* the two modes, for the calls that satisfy pre: callOneWay sends an 'Event'
\* request and returns when the transport has accepted it; call sends a
\* 'RequestResponse' request and returns the decoded result or fails with
\* CALL_FAILED or DESERIALIZATION_FAILED
TwoModes(pre) ==
    (IsCall /\ pre) =>
        /\ Len(cl_last.sent) = 1
        /\ cl_last.op = "callOneWay" =>
              /\ cl_last.sent[1].InvocationType = "Event"
              /\ cl_last.outcome = "accepted" => cl_last.out = Returned(Undefined)
        /\ cl_last.op = "call" =>
              /\ cl_last.sent[1].InvocationType = "RequestResponse"
              /\ \/ /\ cl_last.out.type = "ok"
                    /\ cl_last.outcome \in {"text", "binary", "accepted"}
                    /\ cl_last.out.value = Decoded(cl_last.outcome)
                 \/ /\ cl_last.out.type = "err"
                    /\ cl_last.out.code \in {"CALL_FAILED", "DESERIALIZATION_FAILED"}

\* C17 as stated: every callOneWay and every call behaves that way
C17_EveryCall == TwoModes(TRUE)

\* C17 (amended): callOneWay and call behave that way when the cmd is not
\* empty and the client has the connection that an open resolved
C17_TwoModes == TwoModes(cl_last.cmd \notin {NULL, ""} /\ cl_connection.present)

C17_Witness ==
    /\ cl_last.op = "callOneWay"
    /\ cl_last.cmd = "a"
    /\ cl_last.outcome = "accepted"
    /\ Len(cl_last.sent) = 1
    /\ cl_last.out.type = "ok"

\* C18: a call with an empty cmd, absent or the empty string, fails with the
\* NO_COMMAND error and the transport is not called
C18_EmptyCommand ==
    (IsCall /\ cl_last.cmd \in {NULL, ""}) =>
        /\ cl_last.out.type = "err"
        /\ cl_last.out.code = "NO_COMMAND"
        /\ cl_last.sent = <<>>

\* C19: a call leaves the caller's args object as it was; the envelope it
\* sends holds the fields of args, cmd set to the requested command and
\* correlation_id set to the caller's correlation id, or to a generated
\* non-empty id when the caller supplied none
C19_ArgsNotMutated ==
    IsCall =>
        /\ cl_last.argsAfter = cl_last.args
        /\ cl_last.sent # <<>> =>
              LET envelope == cl_last.sent[1].Payload.json
                  own == IF cl_last.args.present THEN DOMAIN cl_last.args.fields ELSE {}
              IN
              /\ envelope.present
              /\ DOMAIN envelope.fields = own \cup {"cmd", "correlation_id"}
              /\ envelope.fields["cmd"] = cl_last.cmd
              /\ IF cl_last.correlationId \notin {NULL, ""}
                 THEN envelope.fields["correlation_id"] = cl_last.correlationId
                 ELSE envelope.fields["correlation_id"] \notin {NULL, ""}
              /\ \A k \in own \ {"cmd", "correlation_id"} :
                    envelope.fields[k] = cl_last.args.fields[k]

C19_Witness ==
    /\ IsCall
    /\ cl_last.sent # <<>>
    /\ cl_last.args.present
    /\ DOMAIN cl_last.args.fields = EnvelopeKeys
    /\ cl_last.cmd = "a"
    /\ cl_last.correlationId = NULL
    /\ cl_last.argsAfter.fields["cmd"] = "v1"
    /\ cl_last.sent[1].Payload.json.fields["correlation_id"] = "generated"

\* C20: the connection is resolved once per open/close cycle: the resolver
\* does not answer an open call on a client that is open already, and a call
\* on an open client addresses the function at the address that the open of
\* this cycle resolved
C20_ResolvedOncePerCycle ==
    /\ (cl_last.op = "open" /\ cl_last.step = "opened") => ~cl_last.wasOpen
    /\ (IsCall /\ cl_opened /\ cl_last.sent # <<>>) =>
          cl_last.sent[1].FunctionName = cl_cycle

CloseTearsDown ==
    (svc_opened /\ ~svc_opened') =>
        (svc_actions' = <<>> /\ svc_interceptors' = <<>>)

\* the last call was an act that failed with NO_ACTION or NO_COMMAND and
\* reached nothing
ActFailed ==
    /\ last.out.type = "err"
    /\ last.out.code \in {"NO_ACTION", "NO_COMMAND"}
    /\ last.trace = <<>>

\* C22 as stated: close leaves an opened service without actions and
\* interceptors and not open, and every act between the close and the next
\* open fails with NO_ACTION or NO_COMMAND and reaches no handler
C22_NoDispatchAfterClose ==
    /\ [][CloseTearsDown]_vars
    /\ []((last.op = "act" /\ svc_closed) => ActFailed)

\* C22 (amended): close leaves an opened service without actions and
\* interceptors and not open, and every act after the close fails with
\* NO_ACTION or NO_COMMAND and reaches no handler until an action is
\* registered again
C22_CloseTearsDown ==
    /\ [][CloseTearsDown]_vars
    /\ []((last.op = "act" /\ svc_closed /\ svc_actions = <<>>) => ActFailed)

C22_Witness ==
    /\ last.op = "act"
    /\ svc_closed
    /\ ~svc_opened
    /\ svc_actions = <<>>
    /\ svc_interceptors = <<>>
    /\ last.cmd = generateActionCmd("a", svc_name)
    /\ last.out.code = "NO_ACTION"

\* the calls that register something
RegistrationOps == {"registerAction", "registerActionWithAuth", "registerInterceptor"}

\* C23: once the service is open, a call that registers an action or an
\* interceptor is rejected, and the actions and the interceptors stay as
\* they are for as long as the service is open
C23_RegistryFrozenOnceOpen ==
    [][(svc_opened /\ svc_opened') =>
          /\ svc_actions' = svc_actions
          /\ svc_interceptors' = svc_interceptors
          /\ (last'.op \in RegistrationOps /\ last' # last) => last'.out.type = "err"]_vars

\* the first action registered for the command of the last call, 0 if none
Earliest ==
    IF \E i \in 1..Len(svc_actions) : svc_actions[i].cmd = last.cmd
    THEN CHOOSE i \in 1..Len(svc_actions) :
             /\ svc_actions[i].cmd = last.cmd
             /\ \A j \in 1..Len(svc_actions) : svc_actions[j].cmd = last.cmd => i <= j
    ELSE 0

\* C24: an act whose cmd is registered calls the action function of the
\* earliest registration of that cmd and of no other, whatever was
\* registered for the cmd after it
C24_EarliestRegistrationWins ==
    (last.op = "act" /\ Earliest # 0) =>
        \A j \in Events("handler") :
            /\ last.trace[j].k = ActionOf(svc_actions[Earliest].action)
            /\ Cardinality(Events("handler")) = 1

C24_Witness ==
    /\ last.op = "act"
    /\ Len(svc_actions) = 2
    /\ svc_actions[1].cmd = last.cmd
    /\ svc_actions[2].cmd = last.cmd
    /\ ActionOf(svc_actions[1].action) = "h1"
    /\ ActionOf(svc_actions[2].action) = "h3"
    /\ last.out = HandlerOut("h1", last.out.x)
    /\ Events("handler") # {}

\* C26: registerAction of the service with an empty name fails with the
\* missing command error, and with an action that is no function with the
\* invalid handler error; in both cases no action is added
C26_InvalidRegistrationRejected ==
    /\ [](last.op = "registerAction" =>
            /\ last.name = "" =>
                  (last.out.type = "err" /\ last.out.code = "NO_COMMAND")
            /\ (last.name # "" /\ last.arg \notin Handlers) =>
                  /\ last.out.type = "err"
                  /\ last.out.code \in {"NO_ACTION", "ACTION_NOT_FUNCTION"})
    /\ [][(/\ last'.op = "registerAction"
            /\ (last'.name = "" \/ last'.arg \notin Handlers)) =>
              svc_actions' = svc_actions]_vars

QualifiedCmd(name) ==
    IF svc_name = NULL THEN name ELSE svc_name \o "." \o name

\* C27: an action registered under name N in a service named P is stored
\* under the command 'P.N' (under N when the service has no name): an act
\* with that command right after the registration reaches the action, and
\* in a named service an act with the bare N fails with NO_ACTION
C27_QualifiedCommand ==
    /\ [](last.op = "registerAction" =>
            svc_actions[Len(svc_actions)].cmd = QualifiedCmd(last.name))
    /\ [][(last.op = "registerAction" /\ last'.op = "act") =>
            /\ last'.cmd = QualifiedCmd(last.name) =>
                  (last'.trace # <<>> /\ last'.out.code # "NO_ACTION")
            /\ (svc_name # NULL /\ last'.cmd = last.name) =>
                  (last'.trace = <<>> /\ last'.out.code = "NO_ACTION")]_vars

C27_Witness ==
    /\ last.op = "act"
    /\ svc_name = "svc"
    /\ last.cmd = "a"
    /\ last.out.code = "NO_ACTION"
    /\ \E i \in 1..Len(svc_actions) : svc_actions[i].cmd = "svc.a"

\* C28: a dispatch, act or execute, leaves the registered actions, the
\* interceptors and the opened flag as they were, whether it succeeds or
\* fails
C28_DispatchKeepsRegistry ==
    [][last'.op \in {"act", "execute"} =>
          /\ svc_actions' = svc_actions
          /\ svc_interceptors' = svc_interceptors
          /\ svc_opened' = svc_opened
          /\ fn_actions' = fn_actions]_vars

C28_Witness ==
    /\ last.op = "act"
    /\ last.out.type = "err"
    /\ last.out.code = "HANDLER_ERROR"
    /\ svc_opened
    /\ Len(svc_actions) = 2
    /\ svc_interceptors # <<>>

\* the callable was built by registerActionWithAuth
HasAuth(callable) == \E j \in DOMAIN callable : callable[j].l = "authorize"

\* C29: a dispatch of an action registered with registerActionWithAuth whose
\* authorize calls next terminates: authorize runs once, the validation and
\* the action function run once each, and the caller gets what the action
\* function returned
C29_AuthDispatchTerminates ==
    (/\ last.op = "act"
     /\ Dispatched # 0
     /\ Events("authorize") # {}
     /\ \A j \in Events("authorize") : last.trace[j].k = "pass") =>
        /\ last.out.type # "diverged"
        /\ Cardinality(Events("authorize")) = 1
        /\ Cardinality(Events("validate")) <= 1
        /\ last.out.code # "INVALID_DATA" =>
              InvokedOnce(svc_actions[Dispatched].action)

\* C30: a dispatch of an action registered with registerActionWithAuth runs
\* the interceptors registered before it once each and in registration
\* order, then authorize, then the validation, then the action function:
\* what follows authorize is the validation and the action function, never an
\* interceptor again, and nothing follows when authorize does not call next
C30_AuthAfterInterceptors ==
    (/\ last.op = "act"
     /\ Dispatched # 0
     /\ HasAuth(svc_actions[Dispatched].action)) =>
        LET n == svc_before[Dispatched] IN
        /\ Len(last.trace) > n
        /\ \A k \in 1..n :
              last.trace[k].ev = "interceptor" /\ last.trace[k].n = k
        /\ last.trace[n + 1].ev = "authorize"
        /\ \A k \in (n + 2)..Len(last.trace) :
              last.trace[k].ev \in {"validate", "handler"}
        /\ last.trace[n + 1].k = "deny" => Len(last.trace) = n + 1

\* ---- C31 ----
\* the events of a trace that end a timing
Endings(trace) ==
    {i \in 1..Len(trace) : trace[i].ev \in {"endTiming", "endTiming(err)", "endFailure"}}

\* the call reached the handler generated for a command
AdapterCalled ==
    /\ last.op = "execute"
    /\ \E i \in 1..Len(last.trace) : last.trace[i].ev = "execute"

\* C31: the handler that CommandableLambdaFunction.registerCommandSet
\* generates ends no timing while it waits for execute; once execute has
\* ended, the timing has been ended exactly once, as the last thing the
\* handler did: without an error and with execute's result returned when
\* execute succeeded, with the error and with the same error rethrown when
\* execute failed
C31_AdapterAwaitsExecute ==
    AdapterCalled =>
      /\ last.out.type = "awaiting" => Endings(last.trace) = {}
      /\ last.out.type # "awaiting" =>
            /\ Endings(last.trace) = {Len(last.trace)}
            /\ \A i \in 1..Len(last.trace) :
                  last.trace[i].ev = "settled" => i = Len(last.trace) - 1
            /\ IF last.cmd = "resolve"
               THEN /\ last.trace[Len(last.trace)].ev = "endTiming"
                    /\ last.out.type = "ok" /\ last.out.code = "RESULT"
               ELSE /\ last.trace[Len(last.trace)].ev = "endTiming(err)"
                    /\ last.out.type = "err" /\ last.out.code = "COMMAND_ERROR"
                    /\ last.out.by = last.cmd

\* a rejected execute has been awaited and its error rethrown
C31_Witness ==
    /\ AdapterCalled
    /\ last.cmd = "reject"
    /\ last.out.type = "err"
    /\ \E i \in 1..Len(last.trace) : last.trace[i].ev = "settled"

\* ---- C32 ----
\* the commands of getActions(), in order
ActionCmds(actions) == [j \in 1..Len(actions) |-> actions[j].cmd]

\* C32: across the open and close calls of a LambdaService, register() runs
\* once per transition from closed to open and not at all in an open of an
\* open service, and the service is open only with what register()
\* registered: while it is open, getActions() holds each registration of
\* register() exactly once, one action per command of the command set
C32_RegisterOncePerOpen ==
    /\ [](svc_opened =>
            ActionCmds(svc_actions) =
               [i \in 1..Len(commands) |-> generateActionCmd(commands[i], svc_name)])
    /\ [][last'.op = "open" =>
            /\ svc_opened'
            /\ IF svc_opened
               THEN svc_actions' = svc_actions
               ELSE Len(svc_actions') = Len(svc_actions) + Len(commands)]_vars

\* open has been called on a service that was open already
C32_Witness ==
    /\ last.op = "open"
    /\ last.present
    /\ svc_opened
    /\ svc_actions # <<>>

\* ---- C33 ----
\* the interceptors (their positions in this._interceptors) that the last
\* dispatch entered
Entered == {last.trace[e].n : e \in Events("interceptor")}

\* C33: the interceptor chain of an action is fixed when the action is
\* registered: a later registerInterceptor leaves the registered actions as
\* they are, a dispatch enters no interceptor registered after its action,
\* and it enters every interceptor registered before its action unless one of
\* them ends the call without calling next
C33_ChainFixedAtRegistration ==
    /\ []((last.op = "act" /\ Dispatched # 0) =>
            LET c == svc_before[Dispatched] IN
            /\ Entered \subseteq 1..c
            /\ (\A j \in 1..c : svc_interceptors[j] \notin {"ret", "throw"})
                   => Entered = 1..c)
    /\ [][last'.op = "registerInterceptor" => svc_actions' = svc_actions]_vars

\* an action registered between two interceptors is dispatched: the first
\* interceptor is entered, the second is not
C33_Witness ==
    /\ last.op = "act"
    /\ Dispatched # 0
    /\ svc_before[Dispatched] = 1
    /\ Len(svc_interceptors) = 2
    /\ Entered = {1}
    /\ Events("handler") # {}

\* ---- C34 ----
\* the events that the container has dispatched to a service action that has
\* a schema
SchemaDispatches ==
    {e \in 1..Len(fn_events) :
        /\ fn_events[e].pc = "done"
        /\ fn_events[e].cmd \in DOMAIN fn_actions
        /\ SchemaOf(fn_actions[fn_events[e].cmd]) # "none"
        /\ fn_events[e].r.trace # <<>>}

\* the callable has an interceptor around its action
HasInterceptor(callable) ==
    \E j \in 1..Len(callable) : callable[j].l = "interceptor"

\* C34: when the container dispatches a service action that has a schema,
\* the earliest-registered interceptor of the service is the first thing
\* that runs, before any validation, and the envelope is validated once
C34_InterceptorsObserveFirst ==
    \A e \in SchemaDispatches :
        LET t == fn_events[e].r.trace IN
        /\ HasInterceptor(fn_actions[fn_events[e].cmd]) =>
              t[1] = Ev("interceptor", svc_interceptors[1], 1, fn_events[e].x)
        /\ Cardinality({j \in 1..Len(t) : t[j].ev = "validate"}) = 1

\* ---- C35 ----
\* the container has been closed after an open whose registerServices
\* succeeded
Reopening == fn_inits.close >= 1 /\ fn_inits.registerServices >= 1

\* C35: an open of a container that was opened and closed before succeeds, be
\* it called directly or by handler for the next event, and the event is
\* dispatched as it is after the first open
C35_ReopenServes ==
    /\ (last.op = "fn.open" /\ Reopening) => last.out.type = "ok"
    /\ (Reopening /\ Len(fn_events) = 1 /\ fn_events[1].pc = "done") =>
          fn_events[1].r =
             execute(registerServices_Fresh(fn_actions, svc_actions).map,
                     fn_events[1].cmd, fn_events[1].x)

\* ---- C36 ----
\* two events have been handled, the second reached handler while the first
\* was waiting for the first open of the container
Overlapped ==
    /\ Len(fn_events) = 2
    /\ fn_events[2].during
    /\ InFlight = {}
    /\ fn_inits.close = 0

\* C36: when two events overlap on a container that is not open yet, run,
\* open and registerServices take effect once each and each event returns
\* what the action of its command returns on the initialised container
C36_InitialisedOnce ==
    Overlapped =>
      /\ fn_inits.run = 1
      /\ fn_inits.open = 1
      /\ fn_inits.registerServices = 1
      /\ \A e \in 1..2 :
            fn_events[e].r =
               execute(registerServices_Fresh(fn_actions, svc_actions).map,
                       fn_events[e].cmd, fn_events[e].x)

\* ---- C37 ----
\* C37: a call of a client that is not open, before its first successful
\* open or after a close, sends no envelope to the transport and fails
C37_SendsOnlyWhileOpen ==
    (IsCall /\ ~cl_last.wasOpen) =>
        /\ cl_last.sent = <<>>
        /\ cl_last.out.type = "err"

\* ---- C38 ----
\* C38: isOpen() is true only when the connection resolution has succeeded
\* and the client exists: once no open call waits for the resolver any more,
\* a component that says it is open has its client
C38_OpenOnlyWithClient ==
    (cw_resolving = 0 /\ cw_opened) => cw_client

\* ---- C39 ----
\* the metrics of a sequence of putMetricData calls, one after the other
RECURSIVE Flatten(_)
Flatten(calls) ==
    IF calls = <<>> THEN <<>> ELSE Head(calls) \o Flatten(Tail(calls))

\* C39: a save in which no putMetricData call fails sends the counters of
\* its input once each and in input order, in calls of at least 1 and at
\* most BatchSize metrics; a save on a component without a client sends
\* nothing, and a component that was never opened or has just been closed
\* has no client
C39_SaveSendsAllInBatches ==
    /\ (cw_last.op = "save" /\ ~cw_last.failed) =>
          /\ cw_last.client =>
                [i \in 1..Len(Flatten(cw_last.sent)) |->
                    Flatten(cw_last.sent)[i].MetricName]
                   = [i \in 1..Len(cw_last.counters) |-> cw_last.counters[i].name]
          /\ \A b \in 1..Len(cw_last.sent) :
                Len(cw_last.sent[b]) >= 1 /\ Len(cw_last.sent[b]) <= BatchSize
          /\ ~cw_last.client => cw_last.sent = <<>>
    /\ cw_last.op \in {"none", "close"} => ~cw_client

\* a save of more than two full batches: three calls
C39_Witness ==
    /\ cw_last.op = "save"
    /\ cw_last.client
    /\ ~cw_last.failed
    /\ Len(cw_last.counters) > 2 * BatchSize
    /\ Len(cw_last.sent) = 3

====
